---- MODULE Spec2Model ----
(***************************************************************************)
(* vsdx-shrinker: model of analyze_vsdx and shrink_vsdx                    *)
(* (src/src/vsdx_shrinker/core.py).                                        *)
(*                                                                         *)
(* A .vsdx archive is modelled by the parts of its extracted tree that the *)
(* code reads or writes:                                                   *)
(*   visio/masters/masters.xml             catalog   (sequence of Master)  *)
(*   visio/masters/_rels/masters.xml.rels  rels      (set of Relationship) *)
(*   visio/masters/master*.xml             files     (set of file names)   *)
(*   visio/pages/                          pages     (name -> content)     *)
(*   visio/pages/_rels/pages.xml.rels      pagesRels                       *)
(* A page's content is the pair of match sets the two regular expressions  *)
(* of _find_used_masters produce on its text.                              *)
(* The format guarantees that non-empty NameU values and relationship Ids  *)
(* are distinct within one document; the archives drawn below respect      *)
(* that. Ids of Master entries may repeat.                                 *)
(***************************************************************************)
EXTENDS Integers, Sequences, FiniteSets, TLC

\* ---- bounds of the explored archives -----------------------------------
MaxMasters == 2
MaxPages == 2

\* ---- value pools ---------------------------------------------------------
NamePool == <<"A", "B", "C", "D">>
IdPool == <<"1", "2", "3", "4">>
RelPool == <<"rId1", "rId2", "rId3", "rId4">>
FilePool == <<"master1.xml", "master2.xml", "master3.xml", "master4.xml">>
PagePool == <<"page1.xml", "page2.xml", "page3.xml", "page4.xml">>

\* values that occur in no catalog: a name and an id only pages mention, a
\* relationship id and a backing file no Master entry is tied to, a page
\* file whose name does not match page*.xml
GhostName == "Ghost"
GhostId == "99"
OrphanRel == "rId9"
OrphanFile == "master9.xml"
SheetPage == "sheet1.xml"

\* an attribute that is not there, a Master without Rel child
NoAttr == "<absent>"
NoRel == "<no Rel>"

VISIO_NS == "http://schemas.microsoft.com/office/visio/2012/main"
PKG_REL_NS == "http://schemas.openxmlformats.org/package/2006/relationships"
OtherNs == "urn:other"

\* ---- small helpers -------------------------------------------------------
None == <<>>
Some(x) == <<x>>

Max(S) == CHOOSE m \in S : \A x \in S : x <= m

\* the i-th smallest element of a finite set of naturals
RECURSIVE Nth(_, _)
Nth(S, i) ==
  LET m == CHOOSE x \in S : \A y \in S : x <= y
  IN IF i = 1 THEN m ELSE Nth(S \ {m}, i - 1)

\* element.get(attr, '')
Get(v) == IF v = NoAttr THEN "" ELSE v

\* root.remove(element) for every element whose position is in gone
RemoveElements(seq, gone) ==
  LET keep == {i \in 1..Len(seq) : i \notin gone}
  IN [j \in 1..Cardinality(keep) |-> seq[Nth(keep, j)]]

\* ---- sizes ---------------------------------------------------------------
\* stat().st_size of an archive and of a backing file: the environment's
\* answer, here a fixed function of the content
BackingFileSize(f) == 600000
ArchiveSize(a) == 2000000 + 300000 * Cardinality(a.files) + 100 * Len(a.catalog)

\* _bytes_to_mb: round(size / 2^20, 2), in hundredths of a megabyte (for an
\* integer size the quotient is never exactly half way); a negative size,
\* the growth of an archive, rounds as its absolute value does
BytesToMb(size_bytes) ==
  IF size_bytes >= 0 THEN (size_bytes * 100 + 524288) \div 1048576
  ELSE 0 - ((0 - size_bytes) * 100 + 524288) \div 1048576

\* ---- _get_rel_id ---------------------------------------------------------
\* rel is NoRel (no Rel child), "" (Rel child without a recognised id
\* attribute) or the id
GetRelId(rel) == IF rel = NoRel THEN "" ELSE rel

\* ---- _get_page_files -----------------------------------------------------
\* pages_dir.glob("page*.xml")
GlobPages(t) == {n \in DOMAIN t.pages : n # SheetPage}

\* targets of pages.xml.rels that exist on disk
ListedPages(t) ==
  IF t.pagesRels.state = "ok"
  THEN {n \in t.pagesRels.targets : n # "" /\ n \in DOMAIN t.pages}
  ELSE {}

\* (a variant that scans the listed and the globbed pages alike)
GetPageFilesUnion(t) == ListedPages(t) \cup GlobPages(t)

GetPageFiles(t) ==
  IF ListedPages(t) # {} THEN ListedPages(t) ELSE GlobPages(t)

\* ---- _parse_masters_xml --------------------------------------------------
\* positions of the Master entries with a non-empty NameU
NamedIdx(catalog) == {i \in 1..Len(catalog) : Get(catalog[i].NameU) # ""}

\* masters_info: name -> id, rel_id, element (the element is its position);
\* a later entry of the same name overwrites an earlier one
ParseMastersXml(catalog) ==
  LET names == {Get(catalog[i].NameU) : i \in NamedIdx(catalog)}
      last(n) == Max({i \in NamedIdx(catalog) : Get(catalog[i].NameU) = n})
  IN [n \in names |->
        [id |-> Get(catalog[last(n)].ID),
         rel_id |-> GetRelId(catalog[last(n)].rel),
         element |-> last(n)]]

\* ---- _parse_rels_xml -----------------------------------------------------
\* rels_info: rId -> target, for the entries that have both
ParseRelsXml(rels) ==
  LET ok == {r \in rels : r.Id # "" /\ r.Target # ""}
  IN [i \in {r.Id : r \in ok} |-> (CHOOSE r \in ok : r.Id = i).Target]

\* ---- _find_used_masters --------------------------------------------------
\* id_to_name: a later name of the same id overwrites an earlier one
IdToName(catalog, masters_info) ==
  LET ids == {masters_info[n].id : n \in DOMAIN masters_info}
      last(d) == Max({masters_info[n].element :
                        n \in {m \in DOMAIN masters_info : masters_info[m].id = d}})
  IN [d \in ids |-> Get(catalog[last(d)].NameU)]

\* (a variant without method 2, the Master="ID" attributes)
FindUsedMastersNamesOnly(t, masters_info) ==
  UNION {t.pages[p].uses : p \in GetPageFiles(t)}

FindUsedMasters(t, masters_info) ==
  LET id_to_name == IdToName(t.catalog, masters_info)
  IN UNION {t.pages[p].uses \cup
            {id_to_name[d] : d \in t.pages[p].ids \cap DOMAIN id_to_name}
            : p \in GetPageFiles(t)}

\* ---- _validate_vsdx_structure --------------------------------------------
\* the name _validate_vsdx_structure reports a Master by:
\* master.get('NameU', master.get('ID', 'unknown'))
MasterName(m) ==
  IF m.NameU # NoAttr THEN m.NameU
  ELSE IF m.ID # NoAttr THEN m.ID ELSE "unknown"

\* Id attributes of the Relationship elements of masters.xml.rels
RelsIds(t) == IF t.hasRels THEN {r.Id : r \in t.rels} \ {""} ELSE {}

\* 1. required files
ErrRequiredFiles(t) ==
  (IF t.hasRels THEN {} ELSE {<<"Missing relationships file", "">>})
  \cup (IF t.hasPagesDir THEN {} ELSE {<<"Missing pages directory", "">>})

\* 2. namespace of the catalog's root
ErrNamespace(t) ==
  IF t.catalogNs # "" /\ t.catalogNs # VISIO_NS
  THEN {<<"Unexpected namespace", t.catalogNs>>} ELSE {}

\* 3. attributes and Rel child of the sample entry masters[0]
ErrSample(t) ==
  IF t.catalog = <<>> THEN {}
  ELSE LET sample == t.catalog[1]
       IN (IF sample.ID = NoAttr \/ sample.NameU = NoAttr
           THEN {<<"Master elements missing required attributes", "">>} ELSE {})
          \cup (IF sample.rel = NoRel
                THEN {<<"Master elements missing Rel child element", "">>}
                ELSE IF sample.rel = ""
                     THEN {<<"Rel element missing r:id attribute", "">>}
                     ELSE {})

\* 4. namespace of the relationship index's root
ErrRelsNamespace(t) ==
  IF t.hasRels /\ t.relsNs # "" /\ t.relsNs # PKG_REL_NS
  THEN {<<"Unexpected relationships namespace", t.relsNs>>} ELSE {}

\* 5. every Master's r:id is in the index; skipped when the index lists no id
ErrIntegrity(t) ==
  IF t.catalog # <<>> /\ RelsIds(t) # {}
  THEN {<<"references non-existent relationship", MasterName(t.catalog[i])>> :
          i \in {j \in 1..Len(t.catalog) :
                   /\ GetRelId(t.catalog[j].rel) # ""
                   /\ GetRelId(t.catalog[j].rel) \notin RelsIds(t)}}
  ELSE {}

\* the error list; a document that is not XML raises at once, with the
\* errors collected so far lost
ValidateVsdxStructure(t) ==
  IF ~t.hasCatalog THEN {}
  ELSE IF ~t.catalogXmlOk THEN {<<"Invalid XML", "masters.xml">>}
  ELSE IF t.hasRels /\ ~t.relsXmlOk THEN {<<"Invalid XML", "masters.xml.rels">>}
  ELSE ErrRequiredFiles(t) \cup ErrNamespace(t) \cup ErrSample(t)
       \cup ErrRelsNamespace(t) \cup ErrIntegrity(t)

\* ---- _calculate_unused_size ----------------------------------------------
RECURSIVE SumSizes(_)
SumSizes(fs) ==
  IF fs = {} THEN 0
  ELSE LET f == CHOOSE x \in fs : TRUE
       IN BackingFileSize(f) + SumSizes(fs \ {f})

\* one addend per unused name whose relationship resolves to a file on disk
RECURSIVE CalculateUnusedSize(_, _, _, _)
CalculateUnusedSize(unused_names, masters_info, rels_info, files) ==
  IF unused_names = {} THEN 0
  ELSE LET name == CHOOSE x \in unused_names : TRUE
           rel_id == masters_info[name].rel_id
           target == IF rel_id \in DOMAIN rels_info THEN rels_info[rel_id] ELSE ""
       IN (IF target # "" /\ target \in files THEN BackingFileSize(target) ELSE 0)
          + CalculateUnusedSize(unused_names \ {name}, masters_info, rels_info, files)

\* ---- analyze_vsdx, lines 330-348 -----------------------------------------
\* (a variant that reports used_names as found, not intersected with the
\* catalog's names)
AnalyzeResultNoIntersect(t) ==
  LET masters_info == ParseMastersXml(t.catalog)
      rels_info == ParseRelsXml(t.rels)
      used_names == FindUsedMasters(t, masters_info)
      all_names == DOMAIN masters_info
      unused_names == all_names \ used_names
  IN [kind |-> "analysis",
      total_masters |-> Cardinality(all_names),
      used_masters |-> Cardinality(used_names),
      unused_masters |-> Cardinality(unused_names),
      used_names |-> used_names,
      unused_names |-> unused_names,
      potential_savings_mb |->
        BytesToMb(CalculateUnusedSize(unused_names, masters_info, rels_info, t.files))]

AnalyzeResult(t) ==
  LET masters_info == ParseMastersXml(t.catalog)
      rels_info == ParseRelsXml(t.rels)
      used_names == FindUsedMasters(t, masters_info)
      all_names == DOMAIN masters_info
      unused_names == all_names \ used_names
  IN [kind |-> "analysis",
      total_masters |-> Cardinality(all_names),
      used_masters |-> Cardinality(used_names \cap all_names),
      unused_masters |-> Cardinality(unused_names),
      used_names |-> used_names \cap all_names,
      unused_names |-> unused_names,
      potential_savings_mb |->
        BytesToMb(CalculateUnusedSize(unused_names, masters_info, rels_info, t.files))]

\* analyze_vsdx, lines 322-326
EmptyAnalysis ==
  [kind |-> "analysis", total_masters |-> 0, used_masters |-> 0,
   unused_masters |-> 0, used_names |-> {}, unused_names |-> {},
   potential_savings_mb |-> 0]

\* ---- _empty_result -------------------------------------------------------
EmptyResult(original_size, output_path) ==
  [kind |-> "shrink",
   original_size_mb |-> BytesToMb(original_size),
   new_size_mb |-> BytesToMb(original_size),
   reduction_mb |-> 0,
   reduction_percent |-> 0,
   masters_removed |-> 0,
   output_path |-> output_path]

\* ---- shrink_vsdx, lines 399-417: what to remove and what to keep ---------
KeepRelIds(masters_info, used_names) ==
  {masters_info[n].rel_id : n \in used_names \cap DOMAIN masters_info}

KeepFiles(masters_info, rels_info, used_names) ==
  {rels_info[i] : i \in KeepRelIds(masters_info, used_names) \cap DOMAIN rels_info}

\* ==== the archives explored ===============================================
EmptyPages == [p \in {} |-> [uses |-> {}, ids |-> {}]]
NoPagesRels == [state |-> "absent", targets |-> {}]

\* an empty directory: the working tree before extraction and after the
\* TemporaryDirectory is released
EmptyTree ==
  [hasCatalog |-> FALSE, catalogXmlOk |-> TRUE, catalogNs |-> VISIO_NS,
   catalog |-> <<>>,
   hasRels |-> FALSE, relsXmlOk |-> TRUE, relsNs |-> PKG_REL_NS, rels |-> {},
   files |-> {}, hasPagesDir |-> FALSE, pagesRels |-> NoPagesRels,
   pages |-> EmptyPages]

Names == {NamePool[i] : i \in 1..MaxMasters}
Ids == {IdPool[i] : i \in 1..MaxMasters}

CanonEntry(i) == [ID |-> IdPool[i], NameU |-> NamePool[i], rel |-> RelPool[i]]
CanonRels(k) == {[Id |-> RelPool[i], Target |-> FilePool[i]] : i \in 1..k}
CanonFiles(k) == {FilePool[i] : i \in 1..k}

\* one page, page1.xml, found by the glob
OnePage(uses, ids) == [p \in {PagePool[1]} |-> [uses |-> uses, ids |-> ids]]

\* a well-formed archive of k masters, the first of them used by name
CanonArchive(k) ==
  [hasCatalog |-> TRUE, catalogXmlOk |-> TRUE, catalogNs |-> VISIO_NS,
   catalog |-> [i \in 1..k |-> CanonEntry(i)],
   hasRels |-> TRUE, relsXmlOk |-> TRUE, relsNs |-> PKG_REL_NS,
   rels |-> CanonRels(k), files |-> CanonFiles(k),
   hasPagesDir |-> TRUE, pagesRels |-> NoPagesRels,
   pages |-> OnePage({NamePool[1]}, {})]

\* Family A: the shape of the entries. Every attribute of every entry may
\* be missing or empty, the Rel child may be missing, lack its id or name an
\* id the index does not have; the index is complete, empty or not there.
ShapeEntries(i) ==
  [ID : {NoAttr, IdPool[i]},
   NameU : {NoAttr, "", NamePool[i]},
   rel : {NoRel, "", RelPool[i], OrphanRel}]

RECURSIVE ShapeCatalogs(_)
ShapeCatalogs(k) ==
  IF k = 0 THEN {<<>>}
  ELSE {Append(c, e) : c \in ShapeCatalogs(k - 1), e \in ShapeEntries(k)}

ShapeArchive(k, c, ix) ==
  [CanonArchive(k) EXCEPT !.catalog = c, !.hasRels = ix # "absent",
                          !.rels = IF ix = "full" THEN CanonRels(k) ELSE {}]

IsShapeArchive(a) ==
  \E k \in 0..MaxMasters :
    \E c \in ShapeCatalogs(k), ix \in {"full", "empty", "absent"} :
      a = ShapeArchive(k, c, ix)

\* Family B: what pruning sees. Names may be empty, ids may repeat; the
\* index may carry an entry without Id and an entry no Master is tied to,
\* the masters directory a file no relationship targets, and may lack the
\* last backing file; the page mentions at most one name and one id, which
\* need not exist.
PruneEntries(i) ==
  [ID : {IdPool[i], IdPool[1]}, NameU : {"", NamePool[i]}, rel : {RelPool[i]}]

PruneRelsExtras ==
  {{}, {[Id |-> OrphanRel, Target |-> OrphanFile]},
   {[Id |-> "", Target |-> OrphanFile]}}

RECURSIVE PruneCatalogs(_)
PruneCatalogs(k) ==
  IF k = 0 THEN {<<>>}
  ELSE {Append(c, e) : c \in PruneCatalogs(k - 1), e \in PruneEntries(k)}

PruneArchive(k, c, x, f, u, d) ==
  [CanonArchive(k) EXCEPT !.catalog = c, !.rels = CanonRels(k) \cup x,
                          !.files = f, !.pages = OnePage(u, d)]

IsPruneArchive(a) ==
  \E k \in 1..MaxMasters :
    \E c \in PruneCatalogs(k), x \in PruneRelsExtras,
       f \in {CanonFiles(k), CanonFiles(k) \cup {OrphanFile},
              CanonFiles(k) \ {FilePool[k]}},
       u \in {{}} \cup {{n} : n \in Names \cup {GhostName}},
       d \in {{}} \cup {{n} : n \in Ids \cup {GhostId}} :
      a = PruneArchive(k, c, x, f, u, d)

\* Family C: page discovery. A well-formed catalog; the pages directory
\* holds any of the page files, each with one reference or none, and
\* pages.xml.rels is absent, not XML, or lists any targets, on disk or not.
PageNames == {PagePool[i] : i \in 1..MaxPages} \cup {SheetPage}

PageContents ==
  {[uses |-> {}, ids |-> {}], [uses |-> {NamePool[1]}, ids |-> {}],
   [uses |-> {}, ids |-> {IdPool[MaxMasters]}]}

PagesRelsStates ==
  {[state |-> "absent", targets |-> {}], [state |-> "bad", targets |-> {}]}
  \cup {[state |-> "ok", targets |-> T] : T \in SUBSET PageNames}

IsPageArchive(a) ==
  \E S \in SUBSET PageNames :
    \E pg \in [S -> PageContents], pr \in PagesRelsStates :
      a = [CanonArchive(MaxMasters) EXCEPT !.pages = pg, !.pagesRels = pr]

\* Family D: the documents themselves. Any of the three may be missing, the
\* two XML documents may be unparsable or carry another namespace.
IsDocArchive(a) ==
  \E k \in 1..MaxMasters, hc \in BOOLEAN, cx \in BOOLEAN,
     cn \in {VISIO_NS, OtherNs}, hr \in BOOLEAN, rx \in BOOLEAN,
     rn \in {PKG_REL_NS, OtherNs}, hp \in BOOLEAN :
    a = [CanonArchive(k) EXCEPT !.hasCatalog = hc, !.catalogXmlOk = cx,
                                !.catalogNs = cn, !.hasRels = hr,
                                !.relsXmlOk = rx, !.relsNs = rn,
                                !.hasPagesDir = hp,
                                !.catalog = IF hc THEN @ ELSE <<>>,
                                !.rels = IF hr THEN @ ELSE {},
                                !.files = IF hc THEN @ ELSE {},
                                !.pages = IF hp THEN @ ELSE EmptyPages]

\* ==== the state ===========================================================
VARIABLES
  pc,          \* where the running operation stands
  call,        \* the operation and its arguments
  input0,      \* the archive at input_path when the operation was called
  fs,          \* the files outside the temporary directory:
               \*   input (input_path), output (an output_path other than
               \*   input_path), bak (input_path with suffix .vsdx.bak)
  tree,        \* the extraction directory inside the temporary directory
  tempOutput,  \* output.vsdx inside the temporary directory
  mem,         \* the local variables of shrink_vsdx
  out          \* what the operation returned or raised

vars == <<pc, call, input0, fs, tree, tempOutput, mem, out>>

NoInfo == [n \in {} |-> [id |-> "", rel_id |-> "", element |-> 0]]
NoRelsInfo == [i \in {} |-> ""]

EmptyMem ==
  [original_size |-> 0, masters_info |-> NoInfo, rels_info |-> NoRelsInfo,
   used_names |-> {}, names_to_remove |-> {}, keep_rel_ids |-> {},
   keep_files |-> {}, masters_removed |-> 0]

NoCall == [op |-> "none", output_given |-> FALSE, backup |-> FALSE]

Init ==
  /\ pc = "idle"
  /\ call = NoCall
  /\ \/ IsShapeArchive(input0)
     \/ IsPruneArchive(input0)
     \/ IsPageArchive(input0)
     \/ IsDocArchive(input0)
  /\ fs = [input |-> input0, output |-> None, bak |-> None]
  /\ tree = EmptyTree
  /\ tempOutput = None
  /\ mem = EmptyMem
  /\ out = [kind |-> "none"]

\* the path the result goes to
FinalIsInput == ~call.output_given

\* ---- analyze_vsdx --------------------------------------------------------
\* lines 313-320: the path is checked, the archive extracted
AnalyzeCall ==
  /\ pc = "idle"
  /\ call' = [op |-> "analyze", output_given |-> FALSE, backup |-> FALSE]
  /\ tree' = fs.input
  /\ pc' = "extracted"
  /\ UNCHANGED <<input0, fs, tempOutput, mem, out>>

\* lines 322-326: no catalog
AnalyzeNoCatalog ==
  /\ pc = "extracted" /\ call.op = "analyze"
  /\ ~tree.hasCatalog
  /\ out' = EmptyAnalysis
  /\ tree' = EmptyTree
  /\ pc' = "done"
  /\ UNCHANGED <<call, input0, fs, tempOutput, mem>>

\* lines 330-348
AnalyzeReturn ==
  /\ pc = "validated" /\ call.op = "analyze"
  /\ out' = AnalyzeResult(tree)
  /\ tree' = EmptyTree
  /\ pc' = "done"
  /\ UNCHANGED <<call, input0, fs, tempOutput, mem>>

\* ---- both operations: _validate_vsdx_structure ---------------------------
\* analyze_vsdx line 328, shrink_vsdx line 397; an error leaves the with
\* block, which removes the temporary directory
Validate ==
  /\ pc = "extracted"
  /\ tree.hasCatalog
  /\ LET errors == ValidateVsdxStructure(tree)
     IN IF errors # {}
        THEN /\ out' = [kind |-> "VsdxFormatError", errors |-> errors]
             /\ tree' = EmptyTree
             /\ pc' = "failed"
        ELSE /\ pc' = "validated"
             /\ UNCHANGED <<out, tree>>
  /\ UNCHANGED <<call, input0, fs, tempOutput, mem>>

\* ---- shrink_vsdx ---------------------------------------------------------
\* lines 371-372
ShrinkCall ==
  /\ pc = "idle"
  /\ \E output_given \in BOOLEAN, backup \in BOOLEAN :
       call' = [op |-> "shrink", output_given |-> output_given, backup |-> backup]
  /\ mem' = [mem EXCEPT !.original_size = ArchiveSize(fs.input)]
  /\ pc' = "called"
  /\ UNCHANGED <<input0, fs, tree, tempOutput, out>>

\* lines 374-380: the backup copy, when the input is to be overwritten
DetermineOutput ==
  /\ pc = "called"
  /\ fs' = IF ~call.output_given /\ call.backup
           THEN [fs EXCEPT !.bak = Some(fs.input)] ELSE fs
  /\ pc' = "output_determined"
  /\ UNCHANGED <<call, input0, tree, tempOutput, mem, out>>

\* lines 382-389
Extract ==
  /\ pc = "output_determined"
  /\ tree' = fs.input
  /\ pc' = "extracted"
  /\ UNCHANGED <<call, input0, fs, tempOutput, mem, out>>

\* lines 391-394: no catalog, the input is copied through
\* (a variant that returns without the copy)
ShrinkNoCatalogNoCopy ==
  /\ pc = "extracted" /\ call.op = "shrink"
  /\ ~tree.hasCatalog
  /\ out' = EmptyResult(mem.original_size, IF FinalIsInput THEN "input" ELSE "output")
  /\ tree' = EmptyTree
  /\ pc' = "done"
  /\ UNCHANGED <<call, input0, fs, tempOutput, mem>>

ShrinkNoCatalog ==
  /\ pc = "extracted" /\ call.op = "shrink"
  /\ ~tree.hasCatalog
  /\ fs' = IF ~FinalIsInput THEN [fs EXCEPT !.output = Some(fs.input)] ELSE fs
  /\ out' = EmptyResult(mem.original_size, IF FinalIsInput THEN "input" ELSE "output")
  /\ tree' = EmptyTree
  /\ pc' = "done"
  /\ UNCHANGED <<call, input0, tempOutput, mem>>

\* lines 399-428: parse, find the used masters, remove the others from the
\* catalog and write it
PrunedCatalog(catalog, masters_info, names_to_remove) ==
  RemoveElements(catalog, {masters_info[n].element : n \in names_to_remove})

RewriteCatalog ==
  /\ pc = "validated" /\ call.op = "shrink"
  /\ LET masters_info == ParseMastersXml(tree.catalog)
         rels_info == ParseRelsXml(tree.rels)
         used_names == FindUsedMasters(tree, masters_info)
         all_names == DOMAIN masters_info
         names_to_remove == all_names \ used_names
     IN /\ mem' = [mem EXCEPT
                     !.masters_info = masters_info,
                     !.rels_info = rels_info,
                     !.used_names = used_names,
                     !.names_to_remove = names_to_remove,
                     !.keep_rel_ids = KeepRelIds(masters_info, used_names),
                     !.keep_files = KeepFiles(masters_info, rels_info, used_names),
                     !.masters_removed = Cardinality(names_to_remove)]
        /\ tree' = [tree EXCEPT !.catalog =
                      PrunedCatalog(@, masters_info, names_to_remove)]
  /\ pc' = "catalog_written"
  /\ UNCHANGED <<call, input0, fs, tempOutput, out>>

\* lines 430-438: the Relationship elements removed
RelsToRemove(rels, keep_rel_ids) ==
  {r \in rels : r.Id # "" /\ r.Id \notin keep_rel_ids}

RewriteRels ==
  /\ pc = "catalog_written"
  /\ tree' = [tree EXCEPT !.rels = @ \ RelsToRemove(@, mem.keep_rel_ids)]
  /\ pc' = "rels_written"
  /\ UNCHANGED <<call, input0, fs, tempOutput, mem, out>>

\* lines 440-443: the files unlinked; every file of the model's masters
\* directory matches master*.xml and none is masters.xml
FilesToDelete(files, keep_files) == {f \in files : f \notin keep_files}

DeleteFiles ==
  /\ pc = "rels_written"
  /\ tree' = [tree EXCEPT !.files = @ \ FilesToDelete(@, mem.keep_files)]
  /\ pc' = "files_deleted"
  /\ UNCHANGED <<call, input0, fs, tempOutput, mem, out>>

\* lines 399-443 as one function of the validated tree: the tree that is
\* archived
ShrunkTree(t) ==
  LET masters_info == ParseMastersXml(t.catalog)
      rels_info == ParseRelsXml(t.rels)
      used_names == FindUsedMasters(t, masters_info)
      names_to_remove == DOMAIN masters_info \ used_names
  IN [t EXCEPT
        !.catalog = PrunedCatalog(@, masters_info, names_to_remove),
        !.rels = @ \ RelsToRemove(@, KeepRelIds(masters_info, used_names)),
        !.files = @ \ FilesToDelete(@, KeepFiles(masters_info, rels_info, used_names))]

\* lines 446-447: _create_vsdx packs every file of the tree
CreateVsdx ==
  /\ pc = "files_deleted"
  /\ tempOutput' = Some(tree)
  /\ pc' = "archived"
  /\ UNCHANGED <<call, input0, fs, tree, mem, out>>

\* line 457: round(reduction / original_size * 100, 1), in tenths of a
\* percent, 0 for an empty original
ReductionPercent(reduction, original_size) ==
  IF original_size = 0 THEN 0
  ELSE IF reduction >= 0
       THEN (reduction * 1000 + original_size \div 2) \div original_size
       ELSE 0 - ((0 - reduction) * 1000 + original_size \div 2) \div original_size

\* lines 448-460
ShrinkResult(original_size, new_size, masters_removed, output_path) ==
  [kind |-> "shrink",
   original_size_mb |-> BytesToMb(original_size),
   new_size_mb |-> BytesToMb(new_size),
   reduction_mb |-> BytesToMb(original_size - new_size),
   reduction_percent |-> ReductionPercent(original_size - new_size, original_size),
   masters_removed |-> masters_removed,
   output_path |-> output_path]

Move ==
  /\ pc = "archived"
  /\ fs' = IF FinalIsInput THEN [fs EXCEPT !.input = tempOutput[1]]
           ELSE [fs EXCEPT !.output = tempOutput]
  /\ tempOutput' = None
  /\ tree' = EmptyTree
  /\ out' = ShrinkResult(mem.original_size, ArchiveSize(tempOutput[1]),
                         mem.masters_removed,
                         IF FinalIsInput THEN "input" ELSE "output")
  /\ pc' = "done"
  /\ UNCHANGED <<call, input0, mem>>

Next ==
  \/ AnalyzeCall
  \/ AnalyzeNoCatalog
  \/ AnalyzeReturn
  \/ Validate
  \/ ShrinkCall
  \/ DetermineOutput
  \/ Extract
  \/ ShrinkNoCatalog
  \/ RewriteCatalog
  \/ RewriteRels
  \/ DeleteFiles
  \/ CreateVsdx
  \/ Move

Spec == Init /\ [][Next]_vars

\* the archive the finished shrink left at its final output path
Output == IF FinalIsInput THEN fs.input ELSE fs.output[1]

\* ==== properties ==========================================================
ShrinkDone == pc = "done" /\ call.op = "shrink"
AnalyzeDone == pc = "done" /\ call.op = "analyze"

\* the states of an operation that got past validation
PastValidation ==
  pc \in {"validated", "catalog_written", "rels_written", "files_deleted",
          "archived", "done"}

Entries(catalog) == {catalog[i] : i \in 1..Len(catalog)}

\* the non-empty names of a catalog
CatalogNames(catalog) == {Get(e.NameU) : e \in Entries(catalog)} \ {""}

\* the file a relationship id targets in an archive, "" if none
TargetOf(a, rid) ==
  IF \E r \in a.rels : r.Id = rid /\ rid # ""
  THEN (CHOOSE r \in a.rels : r.Id = rid).Target ELSE ""

\* every Master entry's relationship id is in the index and the file it
\* targets is there
ConsistentRefs(a) ==
  \A e \in Entries(a.catalog) :
    /\ GetRelId(e.rel) \in RelsIds(a)
    /\ TargetOf(a, GetRelId(e.rel)) \in a.files

\* ---- C1 ------------------------------------------------------------------
\* C1: after a successful shrink of an archive with a catalog, the output
\* catalog holds exactly the masters named in used_names, the output index
\* exactly the relationship ids of the retained entries, and no backing file
\* of a removed entry remains.
C1_SoundPruning ==
  (ShrinkDone /\ input0.hasCatalog) =>
    LET retained == Entries(Output.catalog)
        removed == Entries(input0.catalog) \ retained
    IN /\ retained = {e \in Entries(input0.catalog) :
                        Get(e.NameU) \in mem.used_names}
       /\ RelsIds(Output) = {GetRelId(e.rel) : e \in retained} \ {""}
       /\ \A e \in removed :
            TargetOf(input0, GetRelId(e.rel)) \notin Output.files

\* ---- C2 ------------------------------------------------------------------
\* an entry lacks NameU or ID, or names a relationship id the index has not
Malformed(a) ==
  \E e \in Entries(a.catalog) :
    \/ e.NameU = NoAttr
    \/ e.ID = NoAttr
    \/ GetRelId(e.rel) # "" /\ GetRelId(e.rel) \notin RelsIds(a)

\* C2: an archive with a catalog in which any entry lacks NameU or ID, or
\* any entry's relationship id does not resolve in the index, makes analyze
\* and shrink fail with VsdxFormatError: neither gets past validation.
C2_MalformedRejected ==
  (input0.hasCatalog /\ Malformed(input0)) => ~PastValidation

\* ---- C3 ------------------------------------------------------------------
\* C3: when analyze or shrink aborts with a format error, whatever
\* output_path and backup were, the input archive is unchanged, nothing is at
\* the output path and no backup file has been written.
C3_NoFileTouchedOnError ==
  pc = "failed" =>
    /\ out.kind = "VsdxFormatError"
    /\ fs.input = input0
    /\ fs.output = None
    /\ fs.bak = None

\* ---- C4 ------------------------------------------------------------------
\* C4: after a successful shrink of an archive whose cross-references were
\* consistent, every Master entry still in the output catalog, named or not,
\* has its relationship id in the output index and its backing file in the
\* output.
C4_OutputConsistent ==
  (ShrinkDone /\ input0.hasCatalog /\ ConsistentRefs(input0)) =>
    ConsistentRefs(Output)

\* ---- C5 ------------------------------------------------------------------
\* C5: for an archive with a catalog that passes validation, analyze returns
\* used_masters + unused_masters = total_masters, and used_names and
\* unused_names are disjoint and together the catalog's non-empty names,
\* also when pages name masters the catalog has not.
C5_Conservation ==
  (AnalyzeDone /\ input0.hasCatalog) =>
    /\ out.used_masters + out.unused_masters = out.total_masters
    /\ out.used_masters = Cardinality(out.used_names)
    /\ out.unused_masters = Cardinality(out.unused_names)
    /\ out.used_names \cap out.unused_names = {}
    /\ out.used_names \cup out.unused_names = CatalogNames(input0.catalog)

\* an analysis of a catalog with a used and an unused master, whose page
\* names a master that is not in the catalog
C5_Witness ==
  /\ AnalyzeDone /\ input0.hasCatalog
  /\ out.used_masters = 1 /\ out.unused_masters = 1
  /\ \E p \in DOMAIN input0.pages : GhostName \in input0.pages[p].uses

\* ---- C6 ------------------------------------------------------------------
UniqueIds(catalog) ==
  \A i, j \in 1..Len(catalog) : i # j => Get(catalog[i].ID) # Get(catalog[j].ID)

\* the pages of archive a reference the master named n, of id d, and only
\* by Master="d"
OnlyNumericRef(a, n, d) ==
  /\ d # ""
  /\ \A p \in DOMAIN a.pages : n \notin a.pages[p].uses
  /\ \E p \in DOMAIN a.pages : d \in a.pages[p].ids

\* archive a with every Master="d" of its pages replaced by USE("n")
Symbolic(a, n, d) ==
  [a EXCEPT !.pages =
     [p \in DOMAIN a.pages |->
        IF d \in a.pages[p].ids
        THEN [uses |-> a.pages[p].uses \cup {n}, ids |-> a.pages[p].ids \ {d}]
        ELSE a.pages[p]]]

\* what a shrunk tree t kept of entry e of the archive a
KeptOf(a, t, e) ==
  [entry |-> e \in Entries(t.catalog),
   relationship |-> GetRelId(e.rel) \in RelsIds(t),
   file |-> TargetOf(a, GetRelId(e.rel)) \in t.files]

AllUses(a) == UNION {a.pages[p].uses : p \in DOMAIN a.pages}
AllIds(a) == UNION {a.pages[p].ids : p \in DOMAIN a.pages}

\* C6: in a catalog with unique ids, a named master referenced only by
\* Master="<its id>" is classified, and treated by shrink, as it would be
\* were every such reference USE("<its name>"): it is used, and shrink keeps
\* its entry, its relationship entry and its backing file; an id that matches
\* no named entry adds nothing to used_names.
C6_NumericAsSymbolic ==
  /\ \A i \in NamedIdx(input0.catalog) :
       LET e == input0.catalog[i]
           n == Get(e.NameU)
           d == Get(e.ID)
           aS == Symbolic(input0, n, d)
       IN (input0.hasCatalog /\ UniqueIds(input0.catalog)
           /\ OnlyNumericRef(input0, n, d)) =>
            /\ AnalyzeDone =>
                 /\ (n \in out.used_names) = (n \in AnalyzeResult(aS).used_names)
                 /\ (n \in out.unused_names) = (n \in AnalyzeResult(aS).unused_names)
            /\ ShrinkDone =>
                 /\ KeptOf(input0, Output, e) = KeptOf(input0, ShrunkTree(aS), e)
                 /\ (n \in mem.used_names) =
                      (n \in FindUsedMasters(aS, ParseMastersXml(aS.catalog)))
                 /\ n \in mem.used_names =>
                      KeptOf(input0, Output, e) = KeptOf(input0, input0, e)
  /\ (ShrinkDone /\ input0.hasCatalog
      /\ \A e \in Entries(input0.catalog) :
           Get(e.NameU) # "" => Get(e.ID) \notin AllIds(input0)) =>
       mem.used_names \subseteq AllUses(input0)

\* a shrink that removed a master and kept, with its relationship and its
\* file, a master the page references by id only
C6_Witness ==
  /\ ShrinkDone /\ input0.hasCatalog /\ UniqueIds(input0.catalog)
  /\ mem.masters_removed >= 1
  /\ \E i \in NamedIdx(input0.catalog) :
       LET e == input0.catalog[i]
       IN /\ OnlyNumericRef(input0, Get(e.NameU), Get(e.ID))
          /\ KeptOf(input0, Output, e) =
               [entry |-> TRUE, relationship |-> TRUE, file |-> TRUE]

\* ---- C7 ------------------------------------------------------------------
\* C7: shrinking an archive that passes validation and has no unused master
\* leaves the catalog's entries and the index's entries as they were and
\* deletes no backing file, those not tied to a named master included.
C7_RoundTrip ==
  (ShrinkDone /\ input0.hasCatalog /\ mem.names_to_remove = {}) =>
    /\ Output.catalog = input0.catalog
    /\ Output.rels = input0.rels
    /\ Output.files = input0.files

\* ---- C8 ------------------------------------------------------------------
\* C8: without masters.xml validation is not run and nothing is raised;
\* analyze returns zero counts, empty name lists and zero savings; shrink
\* returns masters_removed = 0 and a new size equal to the original size,
\* leaves at an output path other than the input a copy of the input, and
\* leaves the input as it was.
C8_NoCatalog ==
  ~input0.hasCatalog =>
    /\ pc \in {"idle", "called", "output_determined", "extracted", "done"}
    /\ out.kind # "VsdxFormatError"
    /\ fs.input = input0
    /\ AnalyzeDone =>
         /\ out.total_masters = 0 /\ out.used_masters = 0
         /\ out.unused_masters = 0
         /\ out.used_names = {} /\ out.unused_names = {}
         /\ out.potential_savings_mb = 0
         /\ fs.output = None
    /\ ShrinkDone =>
         /\ out.masters_removed = 0
         /\ out.original_size_mb = BytesToMb(ArchiveSize(input0))
         /\ out.new_size_mb = out.original_size_mb
         /\ out.reduction_mb = 0
         /\ call.output_given => fs.output = Some(input0)
         /\ ~call.output_given => fs.output = None

\* a shrink to another path of an archive without catalog, which has pages
C8_Witness ==
  /\ ShrinkDone /\ ~input0.hasCatalog /\ call.output_given
  /\ input0.hasPagesDir
  /\ fs.output = Some(input0)
  /\ out.new_size_mb > 0

\* ---- C9 ------------------------------------------------------------------
\* the steps of shrink_vsdx on an archive with a catalog, in order
ShrinkOrder ==
  {<<"idle", "called">>, <<"called", "output_determined">>,
   <<"output_determined", "extracted">>, <<"extracted", "validated">>,
   <<"extracted", "failed">>, <<"validated", "catalog_written">>,
   <<"catalog_written", "rels_written">>, <<"rels_written", "files_deleted">>,
   <<"files_deleted", "archived">>, <<"archived", "done">>}

\* no entry of t's catalog has lost the relationship entry or the backing
\* file it had in the input
NothingReferencedRemoved(t) ==
  \A e \in Entries(t.catalog) :
    /\ GetRelId(e.rel) \in RelsIds(input0) => GetRelId(e.rel) \in RelsIds(t)
    /\ TargetOf(input0, GetRelId(e.rel)) \in input0.files =>
         TargetOf(input0, GetRelId(e.rel)) \in t.files

C9_Step ==
  (call'.op = "shrink" /\ input0.hasCatalog) =>
    /\ <<pc, pc'>> \in ShrinkOrder
    /\ fs'.bak # fs.bak => pc = "called"
    /\ (fs'.input # fs.input \/ fs'.output # fs.output) => pc = "archived"
    /\ pc' \in {"catalog_written", "rels_written", "files_deleted"} =>
         NothingReferencedRemoved(tree')

\* C9: shrink on an archive with a catalog takes its steps in the order
\* backup copy, validation, catalog rewrite, index rewrite, file deletion,
\* re-archive, move; only the move writes the final output path; and between
\* two pruning steps the working tree has no catalog entry whose relationship
\* entry or backing file is already removed.
C9_OrderedSteps == [][C9_Step]_vars

\* ---- C10 -----------------------------------------------------------------
\* the targets of pages.xml.rels that are on disk; the page*.xml files
Listed(a) ==
  IF a.pagesRels.state = "ok" THEN a.pagesRels.targets \cap DOMAIN a.pages ELSE {}
Globbed(a) == DOMAIN a.pages \cap {PagePool[i] : i \in 1..Len(PagePool)}
Discovered(a) == IF Listed(a) # {} THEN Listed(a) ELSE Globbed(a)

\* the names the pages P of archive a reference, by name or by id
ReferencedIn(a, P) ==
  UNION {a.pages[p].uses : p \in P}
  \cup {Get(e.NameU) : e \in {x \in Entries(a.catalog) :
                                /\ Get(x.NameU) # ""
                                /\ \E p \in P : Get(x.ID) \in a.pages[p].ids}}

\* C10: page discovery returns the targets of pages.xml.rels that exist on
\* disk when there are any and the page*.xml files only otherwise; hence a
\* master referenced only from a page that is on disk but not among the
\* listed ones, when some listed page exists, is unused and shrink removes
\* it.
C10_PageDiscovery ==
  input0.hasCatalog =>
    /\ (ShrinkDone /\ UniqueIds(input0.catalog)) =>
         mem.used_names = ReferencedIn(input0, Discovered(input0))
    /\ (AnalyzeDone /\ UniqueIds(input0.catalog)) =>
         out.used_names = ReferencedIn(input0, Discovered(input0))
                            \cap CatalogNames(input0.catalog)
    /\ \A e \in Entries(input0.catalog) :
         (/\ Get(e.NameU) # ""
          /\ Listed(input0) # {}
          /\ Get(e.NameU) \notin ReferencedIn(input0, Listed(input0))) =>
           /\ AnalyzeDone => Get(e.NameU) \in out.unused_names
           /\ ShrinkDone => /\ Get(e.NameU) \in mem.names_to_remove
                            /\ e \notin Entries(Output.catalog)

\* a shrink that removed a master which a page*.xml file on disk references
\* but no listed page does
C10_Witness ==
  /\ ShrinkDone /\ input0.hasCatalog
  /\ Listed(input0) # {}
  /\ \E p \in Globbed(input0) \ Listed(input0) :
       \E e \in Entries(input0.catalog) :
         /\ Get(e.NameU) \in input0.pages[p].uses
         /\ e \notin Entries(Output.catalog)

\* ---- C11 -----------------------------------------------------------------
\* names_to_remove of shrink_vsdx (lines 400-407) on the validated tree t
NamesToRemove(t) ==
  DOMAIN ParseMastersXml(t.catalog)
    \ FindUsedMasters(t, ParseMastersXml(t.catalog))

\* what analyze_vsdx returns on archive a that passes validation
AnalysisOf(a) == IF a.hasCatalog THEN AnalyzeResult(a) ELSE EmptyAnalysis

\* C11: shrink reaches a fixed point in one step. After a successful shrink
\* the output passes validation, analyze on the output reports no unused
\* master and the used_names analyze reported on the input, and a second
\* shrink on the output removes no master and leaves catalog, relationship
\* index and backing files as they are.
C11_FixedPoint ==
  ShrinkDone =>
    /\ ValidateVsdxStructure(Output) = {}
    /\ AnalysisOf(Output).unused_masters = 0
    /\ AnalysisOf(Output).used_names = AnalysisOf(input0).used_names
    /\ Output.hasCatalog =>
         /\ Cardinality(NamesToRemove(Output)) = 0
         /\ ShrunkTree(Output).catalog = Output.catalog
         /\ ShrunkTree(Output).rels = Output.rels
         /\ ShrunkTree(Output).files = Output.files

====
